---- MODULE Spec2Model ----
(***************************************************************************)
(* Model of scripts/export_webpdf.py: the command line loop (main), the    *)
(* per-notebook conversion (convert_notebook) and the browser-driving      *)
(* render routine (SizedWebPDFExporter.run_playwright and its coroutine).  *)
(* The synchronous caller thread is at `pc`, the coroutine run by the      *)
(* worker thread is at `cpc`.  Every awaited call on the automation engine *)
(* is two steps, Issue and Resolve/Reject, so that "in flight" is visible. *)
(***************************************************************************)
EXTENDS Integers, Sequences, FiniteSets, TLC

VARIABLES
    entry,                    \* "cli": main(argv); "lib": the exporter used directly
    nbExists,                 \* per notebook argument: does the path exist
    page_format,              \* args.page_format / self._page_format
    allow_chromium_download,  \* exporter.allow_chromium_download
    disable_sandbox,          \* exporter.disable_sandbox
    paginate,                 \* exporter.paginate (inherited trait, default True)
    binaryPresent,            \* environment: a chromium binary is installed
    idx,                      \* position of nb_path in notebooks (1-based)
    pc,                       \* caller thread position
    err,                      \* exception that ended the run ("none" if none)
    exitCode,                 \* -1 while running, 0 = main returned 0, 1 = exception
    written,                  \* notebooks whose <stem>.pdf was written
    printed,                  \* notebooks whose "Wrote ..." line was printed
    encodable,                \* html.encode("utf-8") succeeds for the current html
    tempLive,                 \* notebooks whose temporary html file is on disk
    tempFor,                  \* notebooks for which a temporary file was ever created
    launchedFor,              \* notebooks for which chromium.launch was ever called
    cpc,                      \* coroutine position
    exc,                      \* exception pending in the coroutine / render call
    failedAt,                 \* coroutine location whose call raised
    download,                 \* "none" | "done" | "failed": playwright install chromium
    engine,                   \* "none" | "running" | "stopped"
    browser,                  \* "none" | "open" | "closed"
    launch_args,              \* args of chromium.launch
    inflight,                 \* engine calls issued and not yet completed
    trace,                    \* engine calls of the current render, in issue order
    measured,                 \* body rect (tenths of a pixel) seen by page.evaluate
    dimensions,               \* value returned by page.evaluate
    pdf_params,               \* the dict built at lines 69-85
    pdf_args,                 \* the keyword arguments page.pdf was called with
    pdf_data                  \* TRUE once the coroutine returned pdf bytes

vars == <<entry, nbExists, page_format, allow_chromium_download, disable_sandbox,
          paginate, binaryPresent, idx, pc, err, exitCode, written, printed,
          encodable, tempLive, tempFor, launchedFor, cpc, exc, failedAt, download,
          engine, browser, launch_args, inflight, trace, measured, dimensions,
          pdf_params, pdf_args, pdf_data>>

inputVars == <<entry, nbExists, page_format, allow_chromium_download,
               disable_sandbox, paginate>>
tempVars == <<tempLive, tempFor>>
coVars == <<cpc, exc, failedAt, download, engine, browser, launch_args, launchedFor,
            inflight, trace, measured, dimensions, pdf_params, pdf_args, pdf_data,
            binaryPresent>>

----------------------------------------------------------------------------
(* Bounds and program constants *)

MaxNotebooks == 2

PageFormats == {"A2", "A3", "A4", "Letter", "Legal"}

PointsPerInch == 72
MaxInches == 200
SettleMs == 100

\* rect.width / rect.height samples, in tenths of a CSS pixel
MeasuredTenths == {0, 95, 100, 101, 143980, 143990, 143991, 144000, 500000}

NoParams == [keys |-> {}, print_background |-> FALSE, format |-> "",
             width |-> 0, height |-> 0]
NoDims == [width |-> 0, height |-> 0]

----------------------------------------------------------------------------
(* Pure helpers *)

Min(a, b) == IF a <= b THEN a ELSE b

\* Math.ceil of a value given in tenths
Ceil10(t) == (t + 9) \div 10

\* Math.ceil(rect.width) + 1
MeasureJs(t) == Ceil10(t) + 1

\* variant: max instead of min
ClampDimMax(v) ==
    IF v >= MaxInches * PointsPerInch THEN v ELSE MaxInches * PointsPerInch

\* min(width, 200 * 72)
ClampDim(v) == Min(v, MaxInches * PointsPerInch)

\* pdf_params: dict = {"print_background": True, "format": self._page_format}
BaseParams(fmt) ==
    [keys |-> {"print_background", "format"}, print_background |-> TRUE,
     format |-> fmt, width |-> 0, height |-> 0]

\* pdf_params.update({"width": min(width, ...), "height": min(height, ...)})
UpdateParams(p, dims) ==
    [p EXCEPT !.keys = @ \cup {"width", "height"},
              !.width = ClampDim(dims.width),
              !.height = ClampDim(dims.height)]

\* args = ["--no-sandbox"] if self.disable_sandbox else []
LaunchArgs(noSandbox) == IF noSandbox THEN <<"--no-sandbox">> ELSE <<>>

\* variant: tests the first argument instead of the current one
PathExistsFirst(i) == nbExists[1]

\* if not nb_path.exists()
PathExists(i) == nbExists[i]

\* variant: `return 0` indented into the loop body
LoopDoneEarly(i) == i >= 1

\* the for loop is exhausted after the last notebook
LoopDone(i) == i = Len(nbExists)

\* variant: delete=False left out (the default deletes on close)
TempDeletedAtClose == TRUE

\* NamedTemporaryFile(suffix=".html", delete=False)
TempDeleteOnClose == FALSE

\* variant: downloads whenever the binary is missing, whatever the flag
ShouldDownloadIfMissing == ~binaryPresent

\* if self.allow_chromium_download
ShouldDownload == allow_chromium_download

----------------------------------------------------------------------------
(* Initial states: after parse_args (cli) or after the exporter was        *)
(* constructed and configured by a library caller (lib).                   *)

\* a fresh render call: no coroutine, no engine, nothing issued
FreshCall ==
    /\ cpc = "idle" /\ exc = "none" /\ failedAt = "none" /\ download = "none"
    /\ engine = "none" /\ browser = "none" /\ launch_args = <<>>
    /\ inflight = {} /\ trace = <<>> /\ measured = NoDims /\ dimensions = NoDims
    /\ pdf_params = NoParams /\ pdf_args = NoParams /\ pdf_data = FALSE

\* the next iteration's render call starts from the same clean slate
ResetCall ==
    /\ cpc' = "idle" /\ exc' = "none" /\ failedAt' = "none" /\ download' = "none"
    /\ engine' = "none" /\ browser' = "none" /\ launch_args' = <<>>
    /\ inflight' = {} /\ trace' = <<>> /\ measured' = NoDims /\ dimensions' = NoDims
    /\ pdf_params' = NoParams /\ pdf_args' = NoParams /\ pdf_data' = FALSE

Init ==
    /\ entry \in {"cli", "lib"}
    /\ page_format \in PageFormats
    /\ allow_chromium_download \in BOOLEAN
    /\ binaryPresent \in BOOLEAN
    /\ \/ /\ entry = "cli"
          /\ \E n \in 1..MaxNotebooks : nbExists \in [1..n -> BOOLEAN]
          /\ disable_sandbox = TRUE
          /\ paginate = TRUE
          /\ pc = "exists"
       \/ /\ entry = "lib"
          /\ nbExists = <<TRUE>>
          /\ disable_sandbox \in BOOLEAN
          /\ paginate \in BOOLEAN
          /\ pc = "export"
    /\ idx = 1
    /\ err = "none" /\ exitCode = -1
    /\ written = {} /\ printed = {}
    /\ encodable = TRUE
    /\ tempLive = {} /\ tempFor = {} /\ launchedFor = {}
    /\ FreshCall

----------------------------------------------------------------------------
(* main and convert_notebook *)

\* an exception leaving main (cli) or the exporter call (lib)
Abort(e) ==
    /\ pc' = "done"
    /\ err' = e
    /\ exitCode' = IF entry = "cli" THEN 1 ELSE exitCode

\* if not nb_path.exists(): raise FileNotFoundError
MainCheckExists ==
    /\ pc = "exists"
    /\ IF PathExists(idx)
          THEN pc' = "mkdir" /\ UNCHANGED <<err, exitCode>>
          ELSE Abort("InputNotFound")
    /\ UNCHANGED <<inputVars, idx, written, printed, encodable, tempVars, coVars>>

\* target_dir.mkdir(parents=True, exist_ok=True)
MainMkdir ==
    /\ pc = "mkdir"
    /\ \/ pc' = "read" /\ UNCHANGED <<err, exitCode>>
       \/ Abort("MkdirFailed")
    /\ UNCHANGED <<inputVars, idx, written, printed, encodable, tempVars, coVars>>

\* exporter = SizedWebPDFExporter(...); notebook_path.open(); nbformat.read()
ConvertRead ==
    /\ pc = "read"
    /\ \/ nbExists[idx] /\ pc' = "export" /\ UNCHANGED <<err, exitCode>>
       \/ Abort("ReadFailed")
    /\ UNCHANGED <<inputVars, idx, written, printed, encodable, tempVars, coVars>>

\* exporter.from_notebook_node(nb): the inherited HTML export, then run_playwright(html)
ConvertExport ==
    /\ pc = "export"
    /\ \/ /\ pc' = "mktemp"
          /\ encodable' \in BOOLEAN
          /\ UNCHANGED <<err, exitCode>>
       \/ Abort("ExportFailed") /\ UNCHANGED encodable
    /\ UNCHANGED <<inputVars, idx, written, printed, tempVars, coVars>>

\* output_path.write_bytes(pdf_data)
ConvertWrite ==
    /\ pc = "write_pdf"
    /\ \/ /\ written' = written \cup {idx}
          /\ pc' = "print"
          /\ UNCHANGED <<err, exitCode>>
       \/ Abort("WriteFailed") /\ UNCHANGED written
    /\ UNCHANGED <<inputVars, idx, printed, encodable, tempVars, coVars>>

\* print(f"Wrote {output_path.relative_to(Path.cwd())}"), then the next
\* notebook or return 0
MainPrint ==
    /\ pc = "print"
    /\ \/ /\ printed' = printed \cup {idx}
          /\ IF LoopDone(idx)
                THEN pc' = "done" /\ exitCode' = 0 /\ UNCHANGED <<idx, coVars>>
                ELSE /\ pc' = "exists" /\ idx' = idx + 1 /\ UNCHANGED exitCode
                     /\ ResetCall /\ UNCHANGED <<binaryPresent, launchedFor>>
          /\ UNCHANGED err
       \/ Abort("PrintFailed") /\ UNCHANGED <<idx, printed, coVars>>
    /\ UNCHANGED <<inputVars, written, encodable, tempVars>>

----------------------------------------------------------------------------
(* run_playwright: the caller thread *)

\* temp_file = tempfile.NamedTemporaryFile(suffix=".html", delete=False)
RenderCreateTemp ==
    /\ pc = "mktemp"
    /\ tempLive' = tempLive \cup {idx}
    /\ tempFor' = tempFor \cup {idx}
    /\ pc' = "write_temp"
    /\ UNCHANGED <<inputVars, idx, err, exitCode, written, printed, encodable, coVars>>

\* with temp_file: temp_file.write(html.encode("utf-8"))   (before the try)
RenderWriteTemp ==
    /\ pc = "write_temp"
    /\ tempLive' = IF TempDeleteOnClose THEN tempLive \ {idx} ELSE tempLive
    /\ \/ encodable /\ pc' = "submit" /\ UNCHANGED <<err, exitCode>>
       \/ ~encodable /\ Abort("EncodeFailed")
       \/ Abort("TempWriteFailed")
    /\ UNCHANGED <<inputVars, idx, written, printed, encodable, tempFor, coVars>>

\* try: pool.submit(run_coroutine, main(temp_file)) ... .result()
RenderSubmit ==
    /\ pc = "submit"
    /\ cpc = "idle"
    /\ cpc' = "import"
    /\ pc' = "result"
    /\ UNCHANGED <<inputVars, idx, err, exitCode, written, printed, encodable,
                   tempVars, exc, failedAt, download, engine, browser, launch_args,
                   launchedFor, inflight, trace, measured, dimensions, pdf_params,
                   pdf_args, pdf_data, binaryPresent>>

\* finally: os.unlink(temp_file.name); then return pdf_data or re-raise
RenderFinally ==
    /\ pc = "result"
    /\ cpc \in {"returned", "raised"}
    /\ tempLive' = tempLive \ {idx}
    /\ IF idx \notin tempLive
          THEN Abort("UnlinkFailed")
          ELSE IF cpc = "raised"
                  THEN Abort(exc)
                  ELSE /\ pc' = IF entry = "cli" THEN "write_pdf" ELSE "done"
                       /\ UNCHANGED <<err, exitCode>>
    /\ UNCHANGED <<inputVars, idx, written, printed, encodable, tempFor, coVars>>

----------------------------------------------------------------------------
(* run_playwright.main: the coroutine on the worker thread's event loop *)

Locs == {"start", "launch", "new_page", "emulate_media", "wait1", "goto", "wait2",
         "evaluate", "pdf", "close", "stop", "handler_stop"}

\* the engine call made at a location, with its distinguishing argument
CallOf(loc) ==
    CASE loc = "start" -> <<"start", "">>
      [] loc = "launch" -> <<"launch", "">>
      [] loc = "new_page" -> <<"new_page", "">>
      [] loc = "emulate_media" -> <<"emulate_media", "print">>
      [] loc \in {"wait1", "wait2"} -> <<"wait_for_timeout", ToString(SettleMs)>>
      [] loc = "goto" -> <<"goto", "networkidle">>
      [] loc = "evaluate" -> <<"evaluate", "">>
      [] loc = "pdf" -> <<"pdf", "">>
      [] loc = "close" -> <<"close", "">>
      [] loc \in {"stop", "handler_stop"} -> <<"stop", "">>

\* variant: the first wait_for_timeout is called without await
AwaitedExceptFirstWait(loc) == loc # "wait1"

\* every engine call is written `await ...`
Awaited(loc) == TRUE

\* the statement after a call that returned
Succ(loc) ==
    CASE loc = "start" -> "launch"
      [] loc = "launch" -> "new_page"
      [] loc = "new_page" -> "emulate_media"
      [] loc = "emulate_media" -> "wait1"
      [] loc = "wait1" -> "goto"
      [] loc = "goto" -> "wait2"
      [] loc = "wait2" -> IF paginate THEN "pdf" ELSE "evaluate"
      [] loc = "evaluate" -> "pdf"
      [] loc = "pdf" -> "close"
      [] loc = "close" -> "stop"
      [] loc = "stop" -> "returned"
      [] loc = "handler_stop" -> "handler_raise"

\* variant: the launch handler raises without stopping the engine
OnFailNoStop(loc) == IF loc = "launch" THEN "handler_raise" ELSE "raised"

\* where control goes when a call raises: only chromium.launch has a handler
OnFail(loc) == IF loc = "launch" THEN "handler_stop" ELSE "raised"

EngineAfter(loc, e) ==
    IF loc = "start" THEN "running"
    ELSE IF loc \in {"stop", "handler_stop"} THEN "stopped" ELSE e

BrowserAfter(loc, b) ==
    IF loc = "launch" THEN "open" ELSE IF loc = "close" THEN "closed" ELSE b

\* try: from playwright.async_api import async_playwright
CoImport ==
    /\ cpc = "import"
    /\ \/ cpc' = "download" /\ UNCHANGED <<exc, failedAt>>
       \/ cpc' = "raised" /\ exc' = "EngineMissing" /\ failedAt' = "import"
    /\ UNCHANGED <<inputVars, idx, pc, err, exitCode, written, printed, encodable,
                   tempVars, download, engine, browser, launch_args, launchedFor,
                   inflight, trace, measured, dimensions, pdf_params, pdf_args,
                   pdf_data, binaryPresent>>

\* if self.allow_chromium_download: subprocess.check_call(playwright install chromium)
CoDownload ==
    /\ cpc = "download"
    /\ IF ShouldDownload
          THEN \/ /\ download' = "done" /\ binaryPresent' = TRUE
                  /\ cpc' = "start" /\ UNCHANGED <<exc, failedAt>>
               \/ /\ download' = "failed" /\ UNCHANGED binaryPresent
                  /\ cpc' = "raised" /\ exc' = "DownloadFailed"
                  /\ failedAt' = "download"
          ELSE cpc' = "start" /\ UNCHANGED <<download, binaryPresent, exc, failedAt>>
    /\ UNCHANGED <<inputVars, idx, pc, err, exitCode, written, printed, encodable,
                   tempVars, engine, browser, launch_args, launchedFor, inflight,
                   trace, measured, dimensions, pdf_params, pdf_args, pdf_data>>

\* the coroutine reaches `await <call>`: the call is sent to the engine
Issue(loc) ==
    /\ cpc = loc
    /\ loc \notin inflight
    /\ inflight' = inflight \cup {loc}
    /\ trace' = Append(trace, loc)
    /\ launch_args' = IF loc = "launch" THEN LaunchArgs(disable_sandbox) ELSE launch_args
    /\ launchedFor' = IF loc = "launch" THEN launchedFor \cup {idx} ELSE launchedFor
    /\ pdf_args' = IF loc = "pdf" THEN pdf_params ELSE pdf_args
    /\ cpc' = IF Awaited(loc) THEN cpc ELSE Succ(loc)
    /\ UNCHANGED <<inputVars, idx, pc, err, exitCode, written, printed, encodable,
                   tempVars, exc, failedAt, download, engine, browser, measured,
                   dimensions, pdf_params, pdf_data, binaryPresent>>

\* the engine answers a call; the coroutine resumes after the await
Resolve(loc) ==
    /\ loc \in inflight
    /\ loc = "launch" => binaryPresent
    /\ inflight' = inflight \ {loc}
    /\ IF cpc # loc
          THEN UNCHANGED <<cpc, engine, browser, measured, dimensions,
                           pdf_params, pdf_data>>
          ELSE /\ cpc' = Succ(loc)
               /\ engine' = EngineAfter(loc, engine)
               /\ browser' = BrowserAfter(loc, browser)
               /\ pdf_data' = IF loc = "pdf" THEN TRUE ELSE pdf_data
               /\ IF loc = "evaluate"
                     THEN \E w \in MeasuredTenths, h \in MeasuredTenths :
                            /\ measured' = [width |-> w, height |-> h]
                            /\ dimensions' = [width |-> MeasureJs(w),
                                              height |-> MeasureJs(h)]
                            /\ pdf_params' = UpdateParams(pdf_params, dimensions')
                     ELSE /\ UNCHANGED <<measured, dimensions>>
                          /\ pdf_params' = IF loc = "wait2" THEN BaseParams(page_format)
                                           ELSE pdf_params
    /\ UNCHANGED <<inputVars, idx, pc, err, exitCode, written, printed, encodable,
                   tempVars, exc, failedAt, download, launch_args, launchedFor, trace,
                   pdf_args, binaryPresent>>

\* the engine call raises (playwright Error / TimeoutError)
Reject(loc) ==
    /\ loc \in inflight
    /\ inflight' = inflight \ {loc}
    /\ IF cpc # loc
          THEN UNCHANGED <<cpc, exc, failedAt>>
          ELSE /\ cpc' = OnFail(loc)
               /\ failedAt' = IF loc = "handler_stop" THEN failedAt ELSE loc
               /\ exc' = IF OnFail(loc) = "raised" THEN "EngineError" ELSE exc
    /\ UNCHANGED <<inputVars, idx, pc, err, exitCode, written, printed, encodable,
                   tempVars, download, engine, browser, launch_args, launchedFor,
                   trace, measured, dimensions, pdf_params, pdf_args, pdf_data,
                   binaryPresent>>

\* except Exception as exc: ...; raise RuntimeError(msg) from exc
CoRaiseUnavailable ==
    /\ cpc = "handler_raise"
    /\ cpc' = "raised"
    /\ exc' = "BrowserUnavailable"
    /\ UNCHANGED <<inputVars, idx, pc, err, exitCode, written, printed, encodable,
                   tempVars, failedAt, download, engine, browser, launch_args,
                   launchedFor, inflight, trace, measured, dimensions, pdf_params,
                   pdf_args, pdf_data, binaryPresent>>

----------------------------------------------------------------------------

Next ==
    \/ MainCheckExists
    \/ MainMkdir
    \/ ConvertRead
    \/ ConvertExport
    \/ RenderCreateTemp
    \/ RenderWriteTemp
    \/ RenderSubmit
    \/ CoImport
    \/ CoDownload
    \/ \E loc \in Locs : Issue(loc)
    \/ \E loc \in Locs : Resolve(loc)
    \/ \E loc \in Locs : Reject(loc)
    \/ CoRaiseUnavailable
    \/ RenderFinally
    \/ ConvertWrite
    \/ MainPrint

Spec == Init /\ [][Next]_vars

----------------------------------------------------------------------------
(* Properties *)

Notebooks == 1..Len(nbExists)
Issued(loc) == \E k \in 1..Len(trace) : trace[k] = loc
RenderEnded == idx \in tempFor /\ pc \in {"write_pdf", "print", "done"}
Calls(seq) == [k \in 1..Len(seq) |-> CallOf(seq[k])]
IsPrefix(a, b) == Len(a) <= Len(b) /\ \A k \in 1..Len(a) : a[k] = b[k]
MaxPdfPoints == 14400

\* the order of engine calls of one render, as the calls made
ExpectedCalls ==
    <<<<"start", "">>, <<"launch", "">>, <<"new_page", "">>,
      <<"emulate_media", "print">>, <<"wait_for_timeout", "100">>,
      <<"goto", "networkidle">>, <<"wait_for_timeout", "100">>>>
    \o (IF paginate THEN <<>> ELSE <<<<"evaluate", "">>>>)
    \o <<<<"pdf", "">>, <<"close", "">>, <<"stop", "">>>>

\* C1: after any render call, whether it returned or raised at any step, the
\* temporary html file of that call is no longer on disk.
C1_TempFileGoneAfterRender == RenderEnded => idx \notin tempLive

\* C2: when a render call ends because page creation, media emulation, a timed
\* wait, navigation, script evaluation or print-to-PDF failed, the browser has
\* been closed and the engine stopped, as on the success path.
C2_CleanupAfterFailedStep ==
    (pc = "done" /\ failedAt \in {"new_page", "emulate_media", "wait1", "goto",
                                 "wait2", "evaluate", "pdf"})
        => (browser = "closed" /\ engine = "stopped")

\* C3 as stated: a run that fails with the not-found error has spawned no
\* browser and created no temporary file, wherever the missing path is.
C3_NotFoundBeforeAnyResource ==
    (pc = "done" /\ err = "InputNotFound") => (tempFor = {} /\ launchedFor = {})

\* C3 amended: a run that reaches a missing path ends there with the not-found
\* error; nothing was allocated for that path or a later one (no temporary
\* file, no launch, no engine), and every earlier notebook exists and was
\* converted with its own temporary file and browser launch.
C3_NotFoundBeforeOwnResources ==
    entry = "cli" =>
        /\ \A i \in 1..(idx - 1) : nbExists[i]
        /\ (pc = "done" /\ ~nbExists[idx]) =>
              /\ err = "InputNotFound"
              /\ tempFor = 1..(idx - 1)
              /\ launchedFor = 1..(idx - 1)
              /\ written = 1..(idx - 1)
              /\ cpc = "idle" /\ engine = "none" /\ browser = "none"
        /\ err = "InputNotFound" => (pc = "done" /\ ~nbExists[idx])

C3_Witness ==
    /\ pc = "done" /\ err = "InputNotFound" /\ idx = 2
    /\ tempFor = {1} /\ launchedFor = {1}

\* C4 as stated: with the binary absent and download disallowed, a render that
\* attempted the launch fails with BrowserUnavailable, attempted no download
\* and leaves no temporary file.
C4_AbsentBinaryAlwaysUnavailable ==
    (pc = "done" /\ ~allow_chromium_download /\ ~binaryPresent /\ Issued("launch"))
        => (err = "BrowserUnavailable" /\ download = "none" /\ tempLive = {})

\* C4 amended: if download is allowed, the download has completed before the
\* engine is started or the launch attempted; if it is disallowed no download
\* is ever attempted, and a launch attempted with the binary absent ends the
\* render with BrowserUnavailable once the engine stop in the handler
\* completed, or with the error of that stop if the stop itself raised; in
\* both cases no browser was opened and no temporary file remains.
C4_DownloadThenUnavailable ==
    /\ (allow_chromium_download /\ (trace # <<>> \/ engine # "none"))
          => (download = "done" /\ binaryPresent)
    /\ ~allow_chromium_download => download = "none"
    /\ (pc = "done" /\ ~allow_chromium_download /\ ~binaryPresent /\ Issued("launch"))
          => /\ browser = "none"
             /\ tempLive = {}
             /\ err \in {"BrowserUnavailable", "EngineError"}
             /\ err = "BrowserUnavailable" <=> engine = "stopped"
             /\ err = "EngineError" <=> (engine = "running" /\ cpc = "raised"
                                         /\ trace = <<"start", "launch", "handler_stop">>)

C4_Witness ==
    /\ pc = "done" /\ ~allow_chromium_download /\ ~binaryPresent
    /\ err = "BrowserUnavailable" /\ download = "none"
    /\ idx \in tempFor /\ tempLive = {}

\* C5: when the launch fails after the engine was started, the launch error is
\* raised only after stop() has completed: the error never exists, in the
\* coroutine or at the caller, while the engine is still running.
C5_StoppedBeforeLaunchError ==
    /\ (exc = "BrowserUnavailable" \/ err = "BrowserUnavailable")
          => (engine = "stopped" /\ failedAt = "launch" /\ inflight = {})
    /\ (cpc = "raised" /\ failedAt = "launch")
          => (exc = "BrowserUnavailable" <=> engine = "stopped")

C5_Witness ==
    /\ pc = "done" /\ err = "BrowserUnavailable" /\ binaryPresent
    /\ engine = "stopped" /\ trace = <<"start", "launch", "handler_stop">>

\* v = min(ceil(t / 10) + 1, 14400), stated without the model's helpers
ClampedCeilPlusOne(t, v) ==
    /\ v <= MaxPdfPoints
    /\ v < MaxPdfPoints => (10 * (v - 1) >= t /\ 10 * (v - 2) < t)
    /\ v = MaxPdfPoints => 10 * (MaxPdfPoints - 2) < t

\* C6: in an auto-size render the width and height passed to print-to-PDF are
\* min(ceil(measured)+1, 14400) each, so neither exceeds 14400.
C6_AutoSizeClamp ==
    (~paginate /\ Issued("pdf")) =>
        /\ {"width", "height"} \subseteq pdf_args.keys
        /\ ClampedCeilPlusOne(measured.width, pdf_args.width)
        /\ ClampedCeilPlusOne(measured.height, pdf_args.height)

C6_Witness ==
    /\ ~paginate /\ Issued("pdf")
    /\ measured.width = 500000 /\ pdf_args.width = 14400
    /\ measured.height = 100 /\ pdf_args.height = 11

\* C7: the print parameters always enable background graphics and carry
\* exactly one page-size source: the named format and no width/height for a
\* fixed format, the computed width/height and no named format for auto-size.
C7_ExactlyOneSizeSource ==
    Issued("pdf") =>
        /\ "print_background" \in pdf_args.keys /\ pdf_args.print_background
        /\ IF paginate
              THEN /\ "format" \in pdf_args.keys /\ pdf_args.format = page_format
                   /\ pdf_args.keys \cap {"width", "height"} = {}
              ELSE /\ {"width", "height"} \subseteq pdf_args.keys
                   /\ "format" \notin pdf_args.keys

\* C8: notebooks are processed one at a time in argument order; the first
\* failure ends the run non-zero with no later notebook converted or written;
\* exit code 0 only if every notebook was converted and its pdf written.
C8_FirstFailureAborts ==
    entry = "cli" =>
        /\ 1..(idx - 1) \subseteq written /\ written \subseteq 1..idx
        /\ tempFor \subseteq 1..idx /\ launchedFor \subseteq 1..idx
        /\ 1..(idx - 1) \subseteq tempFor
        /\ err # "none" <=> exitCode = 1
        /\ err # "none" => pc = "done"
        /\ exitCode = 0 => (pc = "done" /\ written = Notebooks /\ printed = Notebooks)
        /\ pc = "done" => exitCode \in {0, 1}

C8_Witness ==
    /\ entry = "cli" /\ Len(nbExists) = 2 /\ nbExists[2]
    /\ pc = "done" /\ idx = 1 /\ err = "EngineError" /\ exitCode = 1
    /\ written = {} /\ tempFor = {1}

\* C9 as stated: the temporary file lives strictly inside the browser session:
\* whenever the file is on disk the session is open.
C9_TempInsideSession == idx \in tempLive => browser = "open"

\* C9 amended: at most one temporary file is live per conversion, and the
\* browser session lives inside the file's lifetime: the file exists from
\* before the engine is started until the coroutine driving the browser has
\* ended, and is deleted only then.
C9_SessionInsideTemp ==
    /\ Cardinality(tempLive) <= 1 /\ tempLive \subseteq {idx}
    /\ cpc \notin {"idle", "returned", "raised"} => idx \in tempLive
    /\ inflight # {} => idx \in tempLive
    /\ (pc = "result" /\ (engine # "none" \/ browser # "none")) => idx \in tempLive
    /\ (idx \in tempFor /\ idx \notin tempLive) => pc \in {"write_pdf", "print", "done"}

C9_Witness ==
    /\ browser = "open" /\ engine = "running" /\ inflight = {"goto"}
    /\ tempLive = {idx}

\* C10 as stated: the engine calls of any render are a prefix of the fixed
\* order start .. stop, with at most one in flight.
C10_PrefixOfOrder ==
    /\ Cardinality(inflight) <= 1
    /\ IsPrefix(Calls(trace), ExpectedCalls)

\* C10 amended: at most one engine call is in flight, none is issued twice,
\* and the calls of a render are a prefix of the fixed order, except that a
\* failed launch is followed by one stop (start, launch, stop).
C10_PrefixOrLaunchHandler ==
    /\ Cardinality(inflight) <= 1
    /\ \A j, k \in 1..Len(trace) : trace[j] = trace[k] => j = k
    /\ \/ IsPrefix(Calls(trace), ExpectedCalls) /\ ~Issued("handler_stop")
       \/ /\ trace = <<"start", "launch", "handler_stop">>
          /\ failedAt = "launch"
          /\ Calls(trace) = <<<<"start", "">>, <<"launch", "">>, <<"stop", "">>>>
    /\ inflight # {} => inflight = {trace[Len(trace)]}

C10_Witness ==
    /\ ~paginate /\ cpc = "returned" /\ inflight = {}
    /\ Calls(trace) = ExpectedCalls /\ Len(trace) = 11

====
